---- MODULE Spec2Model ----
(***************************************************************************)
(* A model of weight-rs, src/memory.rs: the size parser                    *)
(* (parse_memory_string), the allocation path (allocate_memory) and the    *)
(* background thread that keeps the buffer hot (keep_modifying_data).      *)
(*                                                                         *)
(* A text is a sequence of characters, each character a one-element        *)
(* string; "U+0663" stands for the single character ARABIC-INDIC DIGIT     *)
(* THREE and "LF" for a line feed.                                         *)
(*                                                                         *)
(* A usize is 64 bits wide.  TLC's integers are narrower, so a usize is    *)
(* kept as its 8 bytes, least significant first, and the arithmetic the    *)
(* code does on it (checked_mul, checked_add, comparison) is done on the   *)
(* bytes.                                                                  *)
(***************************************************************************)
EXTENDS Integers, Sequences, FiniteSets, TLC

VARIABLES
    memory,       \* the argument of allocate_memory / parse_memory_string
    pc,           \* where the calling thread is
    result,       \* what the call returned (None until it returns)
    stderr,       \* the warning lines written by eprintln!
    bytes,        \* allocate_memory's local `bytes` (a usize)
    data,         \* the Vec<u8>: None before it exists, else a sequence of u8
    mutex,        \* the Mutex around data: "none", "free", "task"
    poisoned,     \* whether a thread panicked while holding the mutex
    handles,      \* who holds an Arc to the buffer
    taskPc,       \* where the spawned thread is
    chunk_start,  \* the spawned thread's loop variable of the pass in progress
    passes,       \* completed passes of the spawned thread (observation only)
    cycle_start   \* the buffer when the current cycle began (observation only)

vars == <<memory, pc, result, stderr, bytes, data, mutex, poisoned, handles,
          taskPc, chunk_start, passes, cycle_start>>

\* Option<T>: None, or Some(x)
None == <<>>
Some(x) == <<x>>
\* Result<T, String>: an error is its message, split into the fixed text that
\* names the kind of error and the value formatted into it
Ok(v) == <<"Ok", v>>
Err(msg, arg) == <<"Err", msg, arg>>
IsOk(r) == Len(r) = 2
IsErr(r) == Len(r) = 3

(***************************************************************************)
(* Bounds of the model.                                                    *)
(***************************************************************************)
\* every text of at most MaxLen characters over Alphabet is an input
MaxLen == 3
\* the host can provide at most MaxBytes bytes to one allocation
MaxBytes == 8193
\* the observation counter `passes` stops counting here
MaxPasses == 4

(***************************************************************************)
(* usize arithmetic on 8 bytes.                                            *)
(***************************************************************************)
WordBytes == 8

RECURSIVE NatBytes(_, _)
NatBytes(n, k) ==
    IF k = 0 THEN <<>> ELSE <<n % 256>> \o NatBytes(n \div 256, k - 1)

\* the usize of a small natural number (a literal of the source)
usize(n) == NatBytes(n, WordBytes)

\* the natural number of a usize below 2^24, else -1 (only small values are
\* ever needed as TLC integers: buffer lengths within MaxBytes)
ToNat(w) ==
    IF \A i \in 4..WordBytes : w[i] = 0
    THEN w[1] + 256 * w[2] + 65536 * w[3]
    ELSE -1

RECURSIVE ColSum(_, _, _, _)
ColSum(a, b, c, i) ==
    IF i > WordBytes THEN 0
    ELSE (IF (c - i + 1) \in 1..WordBytes THEN a[i] * b[c - i + 1] ELSE 0)
         + ColSum(a, b, c, i + 1)

RECURSIVE MulCols(_, _, _, _)
MulCols(a, b, c, carry) ==
    IF c > 2 * WordBytes THEN <<>>
    ELSE LET t == ColSum(a, b, c, 1) + carry
         IN  <<t % 256>> \o MulCols(a, b, c + 1, t \div 256)

\* a multiplication that keeps the low 64 bits of the product (wrapping_mul)
checked_mul_wrapping(a, b) == Some(SubSeq(MulCols(a, b, 1, 0), 1, WordBytes))

\* usize::checked_mul: None when the product does not fit in 64 bits
checked_mul(a, b) ==
    LET full == MulCols(a, b, 1, 0)
    IN  IF \A i \in (WordBytes + 1)..(2 * WordBytes) : full[i] = 0
        THEN Some(SubSeq(full, 1, WordBytes))
        ELSE None

RECURSIVE AddCols(_, _, _, _)
AddCols(a, b, c, carry) ==
    IF c > WordBytes THEN <<carry>>
    ELSE LET t == a[c] + b[c] + carry
         IN  <<t % 256>> \o AddCols(a, b, c + 1, t \div 256)

\* usize::checked_add
checked_add(a, b) ==
    LET full == AddCols(a, b, 1, 0)
    IN  IF full[WordBytes + 1] = 0 THEN Some(SubSeq(full, 1, WordBytes)) ELSE None

\* a > b on usize
RECURSIVE GtFrom(_, _, _)
GtFrom(a, b, i) ==
    IF i = 0 THEN FALSE
    ELSE IF a[i] # b[i] THEN a[i] > b[i]
    ELSE GtFrom(a, b, i - 1)

\* a >= b on usize
usize_gt_or_equal(a, b) == a = b \/ GtFrom(a, b, WordBytes)

usize_gt(a, b) == GtFrom(a, b, WordBytes)

\* a constant expression of the source, 1024 * 1024 * ... (k factors); the
\* compiler rejects the program if one overflows, so each is a plain usize
RECURSIVE Pow1024(_)
Pow1024(k) ==
    IF k = 0 THEN usize(1) ELSE checked_mul(Pow1024(k - 1), usize(1024))[1]

(***************************************************************************)
(* The parser.                                                             *)
(***************************************************************************)
AsciiDigits == {"0", "1", "2", "3", "4", "5", "6", "7", "8", "9"}

\* the regex crate's \d is Unicode-aware: it is the class \p{Nd}, every decimal
\* digit of every script (here: the ASCII digits and one Arabic-Indic digit)
PerlDigit == AsciiDigits \cup {"U+0663"}

\* char::to_digit(10): the ASCII digits only
to_digit(c) ==
    CASE c = "0" -> 0 [] c = "1" -> 1 [] c = "2" -> 2 [] c = "3" -> 3
      [] c = "4" -> 4 [] c = "5" -> 5 [] c = "6" -> 6 [] c = "7" -> 7
      [] c = "8" -> 8 [] c = "9" -> 9 [] OTHER -> -1

\* MEMORY_REGEX.captures(s) for ^(\d+)([KMGTP]?B)$ : the two groups, or None.
\* ^ and $ are the ends of the text (no multi-line flag), \d+ is greedy and
\* no digit is a unit letter, so the split is unique.
\* the unit of a pattern that also lists E: ^(\d+)([KMGTPE]?B)$
UnitTail_with_E(t) ==
    \/ Len(t) = 1 /\ t[1] = "B"
    \/ Len(t) = 2 /\ t[1] \in {"K", "M", "G", "T", "P", "E"} /\ t[2] = "B"

UnitTail(t) ==
    \/ Len(t) = 1 /\ t[1] = "B"
    \/ Len(t) = 2 /\ t[1] \in {"K", "M", "G", "T", "P"} /\ t[2] = "B"

MEMORY_REGEX(s) ==
    LET splits == {p \in 1..(Len(s) - 1) :
                      /\ \A i \in 1..p : s[i] \in PerlDigit
                      /\ UnitTail(SubSeq(s, p + 1, Len(s)))}
    IN  IF splits = {} THEN None
        ELSE LET p == CHOOSE q \in splits : TRUE
             IN  Some(<<SubSeq(s, 1, p), SubSeq(s, p + 1, Len(s))>>)

\* str::parse::<usize>: digit by digit, result = result * 10 + digit, each
\* step overflow-checked
RECURSIVE parse_digits(_, _, _)
parse_digits(s, i, acc) ==
    IF i > Len(s) THEN Ok(acc)
    ELSE IF to_digit(s[i]) < 0
         THEN Err("Failed to parse number", "invalid digit found in string")
    ELSE LET m == checked_mul(acc, usize(10))
         IN  IF m = None
             THEN Err("Failed to parse number",
                      "number too large to fit in target type")
             ELSE LET a == checked_add(m[1], usize(to_digit(s[i])))
                  IN  IF a = None
                      THEN Err("Failed to parse number",
                               "number too large to fit in target type")
                      ELSE parse_digits(s, i + 1, a[1])

\* a parse that keeps the low 64 bits of the number instead of failing
RECURSIVE wrapping_digits(_, _, _)
wrapping_digits(s, i, acc) ==
    IF i > Len(s) THEN Ok(acc)
    ELSE IF to_digit(s[i]) < 0
         THEN Err("Failed to parse number", "invalid digit found in string")
    ELSE LET m == SubSeq(MulCols(acc, usize(10), 1, 0), 1, WordBytes)
             a == SubSeq(AddCols(m, usize(to_digit(s[i])), 1, 0), 1, WordBytes)
         IN  IF Len(a) = WordBytes THEN wrapping_digits(s, i + 1, a)
             ELSE Err("Failed to parse number", "")

parse_usize_wrapping(s) == wrapping_digits(s, 1, usize(0))

parse_usize(s) ==
    IF Len(s) = 0
    THEN Err("Failed to parse number", "cannot parse integer from empty string")
    ELSE parse_digits(s, 1, usize(0))

\* the match with the "TB" arm one factor short
multiplier_short(unit) ==
    CASE unit = <<"B">> -> Some(Pow1024(0))
      [] unit = <<"K", "B">> -> Some(Pow1024(1))
      [] unit = <<"M", "B">> -> Some(Pow1024(2))
      [] unit = <<"G", "B">> -> Some(Pow1024(3))
      [] unit = <<"T", "B">> -> Some(Pow1024(3))
      [] unit = <<"P", "B">> -> Some(Pow1024(5))
      [] OTHER -> None

\* the match on the unit, lines 80-93: the multiplier of each arm, None for
\* the fallback arm
multiplier(unit) ==
    CASE unit = <<"B">> -> Some(Pow1024(0))
      [] unit = <<"K", "B">> -> Some(Pow1024(1))
      [] unit = <<"M", "B">> -> Some(Pow1024(2))
      [] unit = <<"G", "B">> -> Some(Pow1024(3))
      [] unit = <<"T", "B">> -> Some(Pow1024(4))
      [] unit = <<"P", "B">> -> Some(Pow1024(5))
      [] OTHER -> None

\* 100 * 1024 * 1024 * 1024, line 96
WARN_LIMIT == checked_mul(usize(100), Pow1024(3))[1]

\* parse_memory_string: its return value (ret) and what it writes to the
\* standard error stream (err)
parse_run(memory_str) ==
    LET captures == MEMORY_REGEX(memory_str)
    IN  IF captures = None
        THEN [ret |-> Err("Invalid memory string format", memory_str),
              err |-> <<>>]
        ELSE
        LET value == parse_usize(captures[1][1])
            unit == captures[1][2]
        IN  IF IsErr(value) THEN [ret |-> value, err |-> <<>>]
            ELSE
            LET mult == multiplier(unit)
            IN  IF mult = None
                THEN [ret |-> Err("Invalid memory unit", unit), err |-> <<>>]
                ELSE
                LET product == IF unit = <<"B">> THEN Some(value[2])
                               ELSE checked_mul(value[2], mult[1])
                IN  IF product = None
                    THEN [ret |-> Err("Memory size overflow", <<>>),
                          err |-> <<>>]
                    ELSE [ret |-> Ok(product[1]),
                          err |-> IF usize_gt(product[1], WARN_LIMIT)
                                  THEN << <<"Warning", product[1], memory_str>> >>
                                  ELSE <<>>]

parse_memory_string(memory_str) == parse_run(memory_str).ret

(***************************************************************************)
(* The inputs.                                                             *)
(***************************************************************************)
Alphabet == {"0", "1", "9", "B", "K", "M", "b", " ", "-", ".", "X",
             "U+0663", "LF"}

ShortTexts == UNION {[1..k -> Alphabet] : k \in 0..MaxLen}

DigitChar == <<"0", "1", "2", "3", "4", "5", "6", "7", "8", "9">>
\* the text of a sequence of decimal digits
Dec(ds) == [i \in 1..Len(ds) |-> DigitChar[ds[i] + 1]]

Units == {<<"B">>, <<"K", "B">>, <<"M", "B">>, <<"G", "B">>, <<"T", "B">>,
          <<"P", "B">>}

\* the largest magnitudes that still fit, per unit, and their successors:
\* 2^64 - 1, 2^54 - 1, 2^44 - 1, 2^34 - 1, 2^24 - 1, 2^14 - 1
EdgeTexts ==
    {Dec(<<1,8,4,4,6,7,4,4,0,7,3,7,0,9,5,5,1,6,1,5>>) \o u : u \in Units}
    \cup {Dec(<<1,8,4,4,6,7,4,4,0,7,3,7,0,9,5,5,1,6,1,6>>) \o u : u \in Units}
    \cup {Dec(<<9,9,9,9,9,9,9,9,9,9,9,9,9,9,9,9,9,9,9,9,9,9>>) \o u : u \in Units}
    \cup {Dec(<<0,0,0,0,0,0,0,0,0,0,0,0,0,0,0,0,0,0,0,0,0,0,7>>) \o u : u \in Units}
    \cup {Dec(<<1,8,0,1,4,3,9,8,5,0,9,4,8,1,9,8,3>>) \o <<"K", "B">>,
          Dec(<<1,8,0,1,4,3,9,8,5,0,9,4,8,1,9,8,4>>) \o <<"K", "B">>,
          Dec(<<1,7,5,9,2,1,8,6,0,4,4,4,1,5>>) \o <<"M", "B">>,
          Dec(<<1,7,5,9,2,1,8,6,0,4,4,4,1,6>>) \o <<"M", "B">>,
          Dec(<<1,7,1,7,9,8,6,9,1,8,3>>) \o <<"G", "B">>,
          Dec(<<1,7,1,7,9,8,6,9,1,8,4>>) \o <<"G", "B">>,
          Dec(<<1,6,7,7,7,2,1,5>>) \o <<"T", "B">>,
          Dec(<<1,6,7,7,7,2,1,6>>) \o <<"T", "B">>,
          Dec(<<1,6,3,8,3>>) \o <<"P", "B">>,
          Dec(<<1,6,3,8,4>>) \o <<"P", "B">>,
          \* isize::MAX and its successor
          Dec(<<9,2,2,3,3,7,2,0,3,6,8,5,4,7,7,5,8,0,7>>) \o <<"B">>,
          Dec(<<9,2,2,3,3,7,2,0,3,6,8,5,4,7,7,5,8,0,8>>) \o <<"B">>,
          \* around 100 GiB
          Dec(<<1,0,7,3,7,4,1,8,2,4,0,0>>) \o <<"B">>,
          Dec(<<1,0,7,3,7,4,1,8,2,4,0,1>>) \o <<"B">>,
          Dec(<<1,0,0>>) \o <<"G", "B">>,
          Dec(<<1,0,1>>) \o <<"G", "B">>,
          Dec(<<1,0,0>>) \o <<"M", "B">>,
          Dec(<<1>>) \o <<"T", "B">>,
          Dec(<<2>>) \o <<"M", "B">>,
          Dec(<<5>>) \o <<"X", "B">>,
          Dec(<<1,0,0>>),
          Dec(<<1,0,0>>) \o <<" ", "K", "B">>,
          Dec(<<1>>) \o <<"U+0663">> \o <<"K", "B">>,
          Dec(<<1,0>>) \o <<"k", "b">>,
          Dec(<<1,0>>) \o <<"K", "B", "LF">>,
          Dec(<<1>>) \o <<"K", "K", "B">>,
          Dec(<<1>>) \o <<"E", "B">>}

\* requests around the pattern's period and around the window size
BufferTexts ==
    {Dec(<<2,5,5>>) \o <<"B">>, Dec(<<2,5,6>>) \o <<"B">>,
     Dec(<<2,5,7>>) \o <<"B">>, Dec(<<5,1,3>>) \o <<"B">>,
     Dec(<<4,0,9,5>>) \o <<"B">>, Dec(<<4,0,9,6>>) \o <<"B">>,
     Dec(<<4,0,9,7>>) \o <<"B">>, Dec(<<4>>) \o <<"K", "B">>,
     Dec(<<8>>) \o <<"K", "B">>, Dec(<<8,1,9,3>>) \o <<"B">>}

Inputs == ShortTexts \cup EdgeTexts \cup BufferTexts

(***************************************************************************)
(* The parser on its own: parse_memory_string applied to every input.      *)
(***************************************************************************)
Idle ==
    /\ bytes = None /\ data = None /\ mutex = "none" /\ poisoned = FALSE
    /\ handles = {} /\ taskPc = "none" /\ chunk_start = 0 /\ passes = 0
    /\ result = None /\ stderr = <<>> /\ cycle_start = None

ParseInit == memory \in Inputs /\ pc = "parse" /\ Idle

Parse ==
    /\ pc = "parse"
    /\ result' = parse_memory_string(memory)
    /\ stderr' = stderr \o parse_run(memory).err
    /\ pc' = "parsed"
    /\ UNCHANGED <<memory, bytes, data, mutex, poisoned, handles, taskPc,
                   chunk_start, passes,
                   cycle_start>>

ParseNext == Parse

ParseSpec == ParseInit /\ [][ParseNext]_vars

(***************************************************************************)
(* The program: one call of allocate_memory and the thread it spawns.      *)
(***************************************************************************)
CHUNK_SIZE == 4096

Min(a, b) == IF a < b THEN a ELSE b

\* u8::wrapping_add
wrapping_add(v, k) == (v + k) % 256

\* a subtraction that stops at 0 (saturating_sub)
wrapping_sub_saturating(v, k) == IF v < k THEN 0 ELSE v - k

\* u8::wrapping_sub
wrapping_sub(v, k) == (v + 256 - k) % 256

\* the Vec behind `data`, and its element at index i (from 0)
Buf == data[1]
At(d, i) == d[i + 1]

\* a pattern of period 255
init_byte_255(i) == i % 255

\* `(i % 256) as u8`, line 18
init_byte(i) == i % 256

\* the new value of a byte: data[i].wrapping_add(1) in the increment pass,
\* line 43, data[i].wrapping_sub(1) in the decrement pass, line 56
\* a decrement pass that adds, as the increment pass does
modify_always_add(pass, v) == wrapping_add(v, 1)

modify(pass, v) ==
    IF pass = "inc" THEN wrapping_add(v, 1) ELSE wrapping_sub(v, 1)

\* a pass that keeps the buffer only up to the end of its window
modify_range_truncating(d, from, to, pass) ==
    [j \in 1..to |-> IF from < j THEN modify(pass, d[j]) ELSE d[j]]

\* the buffer after the inner loop `for i in chunk_start..chunk_end` has
\* modified data[i], lines 42-44 and 55-57
modify_range(d, from, to, pass) ==
    [j \in 1..Len(d) |->
        IF from < j /\ j <= to THEN modify(pass, d[j]) ELSE d[j]]

\* a window that ends one index early
chunk_end_of_exclusive(start, n) == Min(start + CHUNK_SIZE - 1, n)

\* a window that is not clipped to the buffer
chunk_end_of_unclipped(start, n) == start + CHUNK_SIZE

\* chunk_end, lines 41 and 54
chunk_end_of(start, n) == Min(start + CHUNK_SIZE, n)

Init ==
    /\ memory \in Inputs
    /\ pc = "call"
    /\ Idle

\* line 14 with a default in place of `?`: a text that fails to parse is
\* taken as 0 bytes
Call_defaulting ==
    /\ pc = "call"
    /\ stderr' = stderr \o parse_run(memory).err
    /\ result' = result
    /\ bytes' = IF IsErr(parse_memory_string(memory))
                THEN usize(0) ELSE parse_memory_string(memory)[2]
    /\ pc' = "alloc"
    /\ UNCHANGED <<memory, data, mutex, poisoned, handles, taskPc,
                   chunk_start, passes, cycle_start>>

\* line 14: let bytes = parse_memory_string(memory)?;
Call ==
    /\ pc = "call"
    /\ stderr' = stderr \o parse_run(memory).err
    /\ result' = IF IsErr(parse_memory_string(memory))
                 THEN parse_memory_string(memory) ELSE result
    /\ bytes' = IF IsErr(parse_memory_string(memory))
                THEN bytes ELSE parse_memory_string(memory)[2]
    /\ pc' = IF IsErr(parse_memory_string(memory)) THEN "returned" ELSE "alloc"
    /\ UNCHANGED <<memory, data, mutex, poisoned, handles, taskPc,
                   chunk_start, passes,
                   cycle_start>>

\* line 16: Vec::with_capacity(bytes).  A capacity above isize::MAX panics
\* ("capacity overflow"); a request the host cannot satisfy ends the process
\* (handle_alloc_error aborts); a capacity of 0 allocates nothing.
with_capacity ==
    /\ pc = "alloc"
    /\ IF bytes[WordBytes] >= 128
       THEN pc' = "panicked" /\ data' = data
       ELSE IF ToNat(bytes) \in 0..MaxBytes
       THEN pc' = "init" /\ data' = Some(<<>>)
       ELSE pc' = "aborted" /\ data' = data
    /\ UNCHANGED <<memory, result, stderr, bytes, mutex, poisoned, handles,
                   taskPc, chunk_start, passes,
                   cycle_start>>

\* lines 17-19: the loop `for i in 0..bytes { data.push((i % 256) as u8) }`,
\* from its first iteration to its last.  The Vec is a local of the calling
\* thread until line 21, so no other thread can see the loop half done.
fill ==
    /\ pc = "init"
    /\ data' = Some([j \in 1..ToNat(bytes) |-> init_byte(j - 1)])
    /\ pc' = "filled"
    /\ UNCHANGED <<memory, result, stderr, bytes, mutex, poisoned,
                   handles, taskPc, chunk_start, passes,
                   cycle_start>>

\* line 21: Arc::new(Mutex::new(data))
wrap ==
    /\ pc = "filled"
    /\ mutex' = "free"
    /\ handles' = {"caller"}
    /\ pc' = "wrapped"
    /\ UNCHANGED <<memory, result, stderr, bytes, data, poisoned, taskPc,
                   chunk_start, passes,
                   cycle_start>>

\* lines 22 and 32-34: keep_modifying_data clones the Arc and spawns the
\* thread, which owns the clone
spawn ==
    /\ pc = "wrapped"
    /\ handles' = handles \cup {"task"}
    /\ taskPc' = "lock_inc"
    /\ pc' = "spawned"
    /\ UNCHANGED <<memory, result, stderr, bytes, data, mutex, poisoned,
                   chunk_start, passes,
                   cycle_start>>

\* keep_modifying_data returning with the caller's Arc still alive
keep_modifying_data_return_keeping_handle ==
    /\ pc = "spawned"
    /\ handles' = handles
    /\ pc' = "kept"
    /\ UNCHANGED <<memory, result, stderr, bytes, data, mutex, poisoned,
                   taskPc, chunk_start, passes, cycle_start>>

\* keep_modifying_data joining the thread before it returns: it waits until
\* the thread has ended
keep_modifying_data_return_joining ==
    /\ pc = "spawned"
    /\ taskPc = "panicked"
    /\ handles' = handles \ {"caller"}
    /\ pc' = "kept"
    /\ UNCHANGED <<memory, result, stderr, bytes, data, mutex, poisoned,
                   taskPc, chunk_start, passes, cycle_start>>

\* line 64: keep_modifying_data returns; its parameter `data` (the caller's
\* Arc) and the JoinHandle are dropped, nothing is joined
keep_modifying_data_return ==
    /\ pc = "spawned"
    /\ handles' = handles \ {"caller"}
    /\ pc' = "kept"
    /\ UNCHANGED <<memory, result, stderr, bytes, data, mutex, poisoned,
                   taskPc, chunk_start, passes,
                   cycle_start>>

\* line 24: Ok(bytes)
return_ok ==
    /\ pc = "kept"
    /\ result' = Ok(bytes)
    /\ pc' = "returned"
    /\ UNCHANGED <<memory, stderr, bytes, data, mutex, poisoned, handles,
                   taskPc, chunk_start, passes,
                   cycle_start>>

allocate_memory ==
    \/ Call
    \/ with_capacity
    \/ fill
    \/ wrap
    \/ spawn
    \/ keep_modifying_data_return
    \/ return_ok

\* lines 39 and 52: data.lock().unwrap(), then the pass's loop starts at 0.
\* lock() waits while the mutex is held; unwrap() panics on a poisoned mutex.
lock(next) ==
    /\ mutex = "free"
    /\ IF poisoned
       THEN taskPc' = "panicked" /\ mutex' = mutex
       ELSE taskPc' = next /\ mutex' = "task"
    /\ chunk_start' = 0
    /\ UNCHANGED <<memory, pc, result, stderr, bytes, data, poisoned,
                   handles, passes>>

\* lines 40-45 and 53-58: one iteration of the loop over the windows.  An
\* index outside the Vec panics: the thread dies, the guard is dropped while
\* panicking and the mutex is poisoned.
chunk(pass) ==
    /\ chunk_start < ToNat(bytes)
    /\ LET chunk_end == chunk_end_of(chunk_start, ToNat(bytes))
       IN  IF chunk_end <= Len(Buf)
           THEN /\ data' = Some(modify_range(Buf, chunk_start, chunk_end, pass))
                /\ chunk_start' = chunk_start + CHUNK_SIZE
                /\ UNCHANGED <<taskPc, mutex, poisoned>>
           ELSE /\ data' = Some(modify_range(Buf, chunk_start, Len(Buf), pass))
                /\ taskPc' = "panicked"
                /\ mutex' = "free"
                /\ poisoned' = TRUE
                /\ chunk_start' = chunk_start
    /\ UNCHANGED <<memory, pc, result, stderr, bytes, handles, passes,
                   cycle_start>>

\* the end of a pass with the guard still alive: the mutex stays locked
unlock_keeping_guard(next) ==
    /\ ~(chunk_start < ToNat(bytes))
    /\ mutex' = mutex
    /\ taskPc' = next
    /\ passes' = Min(passes + 1, MaxPasses)
    /\ UNCHANGED <<memory, pc, result, stderr, bytes, data, poisoned,
                   handles, chunk_start, cycle_start>>

\* lines 46 and 59: the loop has ended, the block ends and the guard is
\* dropped
unlock(next) ==
    /\ ~(chunk_start < ToNat(bytes))
    /\ mutex' = "free"
    /\ taskPc' = next
    /\ passes' = Min(passes + 1, MaxPasses)
    /\ UNCHANGED <<memory, pc, result, stderr, bytes, data, poisoned,
                   handles, chunk_start, cycle_start>>

\* lines 48 and 61: thread::sleep returns
wake(next) ==
    /\ taskPc' = next
    /\ UNCHANGED <<memory, pc, result, stderr, bytes, data, mutex, poisoned,
                   handles, chunk_start, passes, cycle_start>>

\* line 39; a cycle of the loop begins here, and cycle_start records the
\* buffer as it is then
lock_inc ==
    /\ taskPc = "lock_inc"
    /\ lock("inc")
    /\ cycle_start' = data

\* the increment pass with the lock taken per window: the guard is dropped
\* at the end of each window and taken again for the next
inc_chunk_lock_per_window ==
    /\ taskPc = "inc"
    /\ chunk_start < ToNat(bytes)
    /\ data' = Some(modify_range(Buf, chunk_start,
                                 chunk_end_of(chunk_start, ToNat(bytes)),
                                 "inc"))
    /\ chunk_start' = chunk_start + CHUNK_SIZE
    /\ mutex' = IF chunk_start' < ToNat(bytes) THEN "free" ELSE "task"
    /\ UNCHANGED <<memory, pc, result, stderr, bytes, handles, passes,
                   cycle_start, taskPc, poisoned>>

\* lines 40-45
inc_chunk ==
    /\ taskPc = "inc"
    /\ chunk("inc")

\* line 46
unlock_inc ==
    /\ taskPc = "inc"
    /\ unlock("sleep_inc")

\* the loop starting over after the first sleep
wake_inc_restart ==
    /\ taskPc = "sleep_inc"
    /\ wake("lock_inc")

\* line 48
wake_inc ==
    /\ taskPc = "sleep_inc"
    /\ wake("lock_dec")

\* line 52
lock_dec ==
    /\ taskPc = "lock_dec"
    /\ lock("dec")
    /\ cycle_start' = cycle_start

\* lines 53-58
dec_chunk ==
    /\ taskPc = "dec"
    /\ chunk("dec")

\* line 59
unlock_dec ==
    /\ taskPc = "dec"
    /\ unlock("sleep_dec")

\* a thread that ends after its first cycle instead of looping
wake_dec_once ==
    /\ taskPc = "sleep_dec"
    /\ wake("done")

\* line 61
wake_dec ==
    /\ taskPc = "sleep_dec"
    /\ wake("lock_inc")

keep_modifying_data ==
    \/ lock_inc
    \/ inc_chunk
    \/ unlock_inc
    \/ wake_inc
    \/ lock_dec
    \/ dec_chunk
    \/ unlock_dec
    \/ wake_dec

Next == allocate_memory \/ keep_modifying_data

Spec == Init /\ [][Next]_vars

(***************************************************************************)
(* What the size grammar means, in decimal arithmetic.  A decimal number is *)
(* the sequence of its digits, least significant first, zero the empty      *)
(* sequence.                                                               *)
(***************************************************************************)
\* the number of ASCII digits a text begins with
LeadDigits(s) ==
    CHOOSE p \in 0..Len(s) :
        /\ \A i \in 1..p : s[i] \in AsciiDigits
        /\ p = Len(s) \/ s[p + 1] \notin AsciiDigits

\* <digits><unit>: one or more of 0-9, then one of B, KB, MB, GB, TB, PB
IsValidText(s) ==
    /\ LeadDigits(s) >= 1
    /\ SubSeq(s, LeadDigits(s) + 1, Len(s)) \in Units

UnitPower(s) ==
    LET u == SubSeq(s, LeadDigits(s) + 1, Len(s))
    IN  CASE u = <<"B">> -> 0
          [] u = <<"K", "B">> -> 1
          [] u = <<"M", "B">> -> 2
          [] u = <<"G", "B">> -> 3
          [] u = <<"T", "B">> -> 4
          [] u = <<"P", "B">> -> 5

DigitVal(c) == CHOOSE d \in 0..9 : DigitChar[d + 1] = c

RECURSIVE DecStrip(_)
DecStrip(n) ==
    IF n = <<>> THEN n
    ELSE IF n[Len(n)] = 0 THEN DecStrip(SubSeq(n, 1, Len(n) - 1))
    ELSE n

\* the number a run of digit characters denotes
DecOfText(t) == DecStrip([i \in 1..Len(t) |-> DigitVal(t[Len(t) + 1 - i])])

MagnitudeDec(s) == DecOfText(SubSeq(s, 1, LeadDigits(s)))

RECURSIVE DecMulCarry(_, _, _, _)
DecMulCarry(n, m, i, carry) ==
    IF i > Len(n)
    THEN IF carry = 0 THEN <<>>
         ELSE <<carry % 10>> \o DecMulCarry(n, m, i, carry \div 10)
    ELSE LET t == n[i] * m + carry
         IN  <<t % 10>> \o DecMulCarry(n, m, i + 1, t \div 10)

DecTimes(n, m) == DecMulCarry(n, m, 1, 0)

RECURSIVE DecTimesPow1024(_, _)
DecTimesPow1024(n, k) ==
    IF k = 0 THEN n ELSE DecTimes(DecTimesPow1024(n, k - 1), 1024)

RECURSIVE DecLeqFrom(_, _, _)
DecLeqFrom(a, b, i) ==
    IF i = 0 THEN TRUE
    ELSE IF a[i] # b[i] THEN a[i] < b[i]
    ELSE DecLeqFrom(a, b, i - 1)

DecLeq(a, b) ==
    \/ Len(a) < Len(b)
    \/ Len(a) = Len(b) /\ DecLeqFrom(a, b, Len(a))

\* 2^64 - 1
UsizeMaxDec == DecOfText(Dec(<<1,8,4,4,6,7,4,4,0,7,3,7,0,9,5,5,1,6,1,5>>))

\* magnitude * 1024^k of a valid text
ExpectedDec(s) == DecTimesPow1024(MagnitudeDec(s), UnitPower(s))

\* the decimal number of a usize: divide by ten until nothing is left
RECURSIVE RemFrom(_, _)
RemFrom(w, i) ==
    IF i > WordBytes THEN 0 ELSE (RemFrom(w, i + 1) * 256 + w[i]) % 10

RECURSIVE QuotFrom(_, _)
QuotFrom(w, i) ==
    IF i > WordBytes THEN <<>>
    ELSE <<(RemFrom(w, i + 1) * 256 + w[i]) \div 10>> \o QuotFrom(w, i + 1)

Quot10(w) == QuotFrom(w, 1)

RECURSIVE WordToDec(_)
WordToDec(w) ==
    IF \A i \in 1..WordBytes : w[i] = 0 THEN <<>>
    ELSE <<RemFrom(w, 1)>> \o WordToDec(Quot10(w))

(***************************************************************************)
(* Properties of the parser, under ParseSpec.                              *)
(***************************************************************************)
\* C1: for a text <digits><unit> whose magnitude * 1024^k fits in a usize,
\* parse_memory_string returns Ok with exactly that product; "1KB" gives
\* 1024, "2MB" gives 2097152 and "0B" gives 0.
C1_ParseExact ==
    pc = "parsed" =>
        /\ (IsValidText(memory) /\ DecLeq(ExpectedDec(memory), UsizeMaxDec))
             => (IsOk(result) /\ WordToDec(result[2]) = ExpectedDec(memory))
        /\ memory = <<"1", "K", "B">> => result = Ok(usize(1024))
        /\ memory = <<"2", "M", "B">> => result = Ok(usize(2097152))
        /\ memory = <<"0", "B">> => result = Ok(usize(0))

\* a parse of the largest magnitude that fits with PB: 16383PB
C1_Witness ==
    /\ pc = "parsed"
    /\ IsValidText(memory)
    /\ UnitPower(memory) = 5
    /\ Len(MagnitudeDec(memory)) = 5
    /\ IsOk(result)
    /\ WordToDec(result[2]) = ExpectedDec(memory)

\* C2: every text that is not <digits 0-9><unit> fails with the
\* 'Invalid memory string format' error carrying the text, and no other error.
C2_InvalidFormat ==
    (pc = "parsed" /\ ~IsValidText(memory)) =>
        /\ IsErr(result)
        /\ result[2] = "Invalid memory string format"
        /\ result[3] = memory

\* C3: a valid text whose magnitude fits in a usize but whose product with the
\* unit's multiplier does not fails with 'Memory size overflow'; it is never
\* Ok with a wrapped or saturated value.
C3_SizeOverflow ==
    (/\ pc = "parsed"
     /\ IsValidText(memory)
     /\ DecLeq(MagnitudeDec(memory), UsizeMaxDec)
     /\ ~DecLeq(ExpectedDec(memory), UsizeMaxDec)) =>
        /\ IsErr(result)
        /\ result[2] = "Memory size overflow"

\* the smallest overflowing magnitude with the smallest multiplier: 2^54 KB
C3_Witness ==
    /\ pc = "parsed"
    /\ IsValidText(memory)
    /\ UnitPower(memory) = 1
    /\ DecLeq(MagnitudeDec(memory), UsizeMaxDec)
    /\ ~DecLeq(ExpectedDec(memory), UsizeMaxDec)
    /\ IsErr(result)
    /\ result[2] = "Memory size overflow"

\* C4: a valid text whose digit run alone exceeds the largest usize fails with
\* 'Failed to parse number', whatever the unit: never 'Memory size overflow',
\* never Ok.
C4_NumberTooLarge ==
    (/\ pc = "parsed"
     /\ IsValidText(memory)
     /\ ~DecLeq(MagnitudeDec(memory), UsizeMaxDec)) =>
        /\ IsErr(result)
        /\ result[2] = "Failed to parse number"
        /\ result[3] = "number too large to fit in target type"

\* 2^64 with the unit PB
C4_Witness ==
    /\ pc = "parsed"
    /\ IsValidText(memory)
    /\ UnitPower(memory) = 5
    /\ ~DecLeq(MagnitudeDec(memory), UsizeMaxDec)
    /\ Len(MagnitudeDec(memory)) = 20
    /\ IsErr(result)
    /\ result[2] = "Failed to parse number"

(***************************************************************************)
(* Properties of the program, under Spec.                                  *)
(***************************************************************************)
HasPattern(d, k) == \A i \in 0..(Len(d) - 1) : At(d, i) = (i + k) % 256

\* C5: when the thread exists, the buffer has exactly the parsed number of
\* bytes, and until the first pass has modified it, buffer[i] = i mod 256 for
\* every i: the thread never sees a partially filled buffer.
C5_InitBeforeTask ==
    taskPc # "none" =>
        /\ IsOk(parse_memory_string(memory))
        /\ bytes = parse_memory_string(memory)[2]
        /\ Len(Buf) = ToNat(bytes)
        /\ (passes = 0 /\ (taskPc = "lock_inc" \/ (taskPc = "inc" /\ chunk_start = 0)))
             => HasPattern(Buf, 0)

\* the first pass is about to modify a buffer longer than the pattern's period
C5_Witness ==
    /\ taskPc = "inc"
    /\ mutex = "task"
    /\ passes = 0
    /\ chunk_start = 0
    /\ Len(Buf) > 256
    /\ HasPattern(Buf, 0)

\* C6: after the increment pass every byte is its value at the start of the
\* cycle plus one modulo 256, and after the decrement pass that follows every
\* byte is again its value at the start of the cycle.
C6_CycleRestores ==
    /\ taskPc = "sleep_inc" =>
          /\ Len(Buf) = Len(cycle_start[1])
          /\ \A i \in 1..Len(Buf) : Buf[i] = (cycle_start[1][i] + 1) % 256
    /\ taskPc = "sleep_dec" => data = cycle_start

\* a second cycle has ended on a buffer that holds both 0 and 255
C6_Witness ==
    /\ taskPc = "sleep_dec"
    /\ passes >= 4
    /\ data = cycle_start
    /\ \E i \in 1..Len(Buf) : Buf[i] = 255
    /\ \E i \in 1..Len(Buf) : Buf[i] = 0

\* the buffer is the start of the cycle with k passes applied to every byte
SamePass(k) ==
    /\ Len(Buf) = Len(cycle_start[1])
    /\ \A i \in 1..Len(Buf) : Buf[i] = (cycle_start[1][i] + k) % 256

\* C7: the thread is inside a pass only while it holds the mutex, so whenever
\* the mutex is free either every byte reflects the pass or none does.
C7_PassAtomic ==
    /\ taskPc \in {"inc", "dec"} => mutex = "task"
    /\ (mutex = "free" /\ cycle_start # None) => (SamePass(0) \/ SamePass(1))

\* the middle of an increment pass: the first window is done, the last is not
C7_Witness ==
    /\ taskPc = "inc"
    /\ mutex = "task"
    /\ 0 < chunk_start /\ chunk_start < Len(Buf)
    /\ Buf[1] # cycle_start[1][1]
    /\ Buf[Len(Buf)] = cycle_start[1][Len(Buf)]

\* C8: while the thread sleeps, after either pass, it does not hold the mutex;
\* it holds the mutex only inside a pass.
C8_NoLockInSleep ==
    /\ taskPc \in {"sleep_inc", "sleep_dec"} => mutex = "free"
    /\ mutex = "task" => taskPc \in {"inc", "dec"}

\* the sleep after a decrement pass
C8_Witness ==
    /\ taskPc = "sleep_dec"
    /\ mutex = "free"
    /\ passes >= 2

Phase(p) ==
    CASE p \in {"lock_inc", "inc"} -> "Incrementing"
      [] p = "sleep_inc" -> "WaitingAfterIncrement"
      [] p \in {"lock_dec", "dec"} -> "Decrementing"
      [] p = "sleep_dec" -> "WaitingAfterDecrement"
      [] p = "none" -> "NotStarted"
      [] OTHER -> "Terminated"

PhaseCycle ==
    {<<"NotStarted", "Incrementing">>,
     <<"Incrementing", "WaitingAfterIncrement">>,
     <<"WaitingAfterIncrement", "Decrementing">>,
     <<"Decrementing", "WaitingAfterDecrement">>,
     <<"WaitingAfterDecrement", "Incrementing">>}

\* C9: the thread starts in Incrementing and only ever moves Incrementing ->
\* WaitingAfterIncrement -> Decrementing -> WaitingAfterDecrement ->
\* Incrementing; it never terminates, and it always has a next step.
C9_PhaseOrder ==
    /\ [][Phase(taskPc') = Phase(taskPc)
            \/ <<Phase(taskPc), Phase(taskPc')>> \in PhaseCycle]_vars
    /\ [](taskPc # "none" => ENABLED keep_modifying_data)

\* the thread is back in Incrementing after a whole cycle
C9_Witness ==
    /\ taskPc = "inc"
    /\ passes >= 2

(***************************************************************************)
(* Properties of the call's return, under Spec.                            *)
(***************************************************************************)
\* the steps the calling thread still has to take before it has returned
CallerRank ==
    CASE pc = "call" -> 7
      [] pc = "alloc" -> 6
      [] pc = "init" -> 5
      [] pc = "filled" -> 4
      [] pc = "wrapped" -> 3
      [] pc = "spawned" -> 2
      [] pc = "kept" -> 1
      [] OTHER -> 0

\* allocate_memory after line 14
AfterParse ==
    with_capacity \/ fill \/ wrap \/ spawn \/ keep_modifying_data_return
        \/ return_ok

AllocationFailed ==
    /\ pc \notin {"call", "alloc"}
    /\ IsOk(parse_memory_string(memory))
    /\ data = None

\* C11: when the host cannot provide the memory of a parsed byte count,
\* allocate_memory returns an Err carrying a message; no thread is launched
\* and no buffer is kept.
C11_AllocationError ==
    AllocationFailed =>
        /\ pc = "returned"
        /\ IsErr(result)
        /\ taskPc = "none"
        /\ mutex = "none"
        /\ handles = {}

\* 100 * 1024^3 = 107374182400
WarnLimitDec == DecOfText(Dec(<<1,0,7,3,7,4,1,8,2,4,0,0>>))

\* the text denotes a byte count that fits in a usize and exceeds 100 GiB
OverWarnLimit(s) ==
    /\ IsValidText(s)
    /\ DecLeq(ExpectedDec(s), UsizeMaxDec)
    /\ ~DecLeq(ExpectedDec(s), WarnLimitDec)

\* C12: the warning is written exactly when the byte count is strictly
\* greater than 100 * 1024^3, it is written once, and with it the parser's
\* result is the same Ok(byte count) and the call goes on to the allocation.
C12_WarningAdvisory ==
    pc # "call" =>
        /\ (stderr # <<>>) <=> OverWarnLimit(memory)
        /\ stderr # <<>> =>
              /\ IsOk(parse_memory_string(memory))
              /\ WordToDec(bytes) = ExpectedDec(memory)
              /\ stderr = << <<"Warning", bytes, memory>> >>
              /\ pc # "returned"
        /\ memory = Dec(<<1,0,0>>) \o <<"G", "B">> => stderr = <<>>

\* the call of the first byte count above the limit is at the allocation
C12_Witness ==
    /\ pc = "alloc"
    /\ memory = Dec(<<1,0,7,3,7,4,1,8,2,4,0,1>>) \o <<"B">>
    /\ Len(stderr) = 1
    /\ WordToDec(bytes) = ExpectedDec(memory)

(***************************************************************************)
(* The windowed traversal against a plain pass, under Spec.                *)
(***************************************************************************)
\* one byte after a plain +1 or -1 modulo 256
PlainByte(pass, v) == IF pass = "inc" THEN (v + 1) % 256 ELSE (v + 255) % 256

\* a plain byte-by-byte pass over a whole buffer
PlainPass(d, pass) == [j \in 1..Len(d) |-> PlainByte(pass, d[j])]

\* byte j of the buffer at the moment the running pass took the lock
StartByte(j) ==
    IF taskPc = "inc" THEN cycle_start[1][j]
    ELSE PlainByte("inc", cycle_start[1][j])

\* the buffer at the moment the running pass took the lock
PassStart == [j \in 1..Len(cycle_start[1]) |-> StartByte(j)]

\* C13: the windows of 4096 starting at 0, 4096, ... with the last one clipped
\* modify every index of [0, n) exactly once and nothing else: at each point
\* of a pass the indices below chunk_start hold one modification and the
\* others none, and at the end the buffer is that of a plain byte-by-byte
\* pass.
C13_WindowsCoverAll ==
    taskPc \in {"inc", "dec"} =>
        /\ Len(Buf) = ToNat(bytes)
        /\ Len(cycle_start[1]) = ToNat(bytes)
        /\ chunk_start % CHUNK_SIZE = 0
        /\ chunk_start < ToNat(bytes) + CHUNK_SIZE
        /\ \A j \in 1..Len(Buf) :
              Buf[j] = IF j <= chunk_start
                       THEN PlainByte(taskPc, StartByte(j))
                       ELSE StartByte(j)
        /\ chunk_start >= ToNat(bytes) => Buf = PlainPass(PassStart, taskPc)

\* a decrement pass has ended on a buffer of several windows whose last
\* window was clipped
C13_Witness ==
    /\ taskPc = "dec"
    /\ ToNat(bytes) > CHUNK_SIZE
    /\ ToNat(bytes) % CHUNK_SIZE # 0
    /\ chunk_start >= ToNat(bytes)
    /\ Buf = PlainPass(PassStart, "dec")

(***************************************************************************)
(* Progress of the thread.  The thread is scheduled fairly: a step of it   *)
(* that stays possible is eventually taken.                                *)
(***************************************************************************)
FairSpec == Spec /\ WF_vars(keep_modifying_data)

\* C14: under fair scheduling of the thread every pass ends and the thread
\* never stops: once it is launched, each of the four phases is entered
\* again and again, for every buffer length.
C14_PhasesRecur ==
    /\ taskPc \in {"inc", "dec"} ~> taskPc \in {"sleep_inc", "sleep_dec"}
    /\ []<>(taskPc = "none" \/ taskPc = "lock_inc")
    /\ []<>(taskPc = "none" \/ taskPc = "sleep_inc")
    /\ []<>(taskPc = "none" \/ taskPc = "lock_dec")
    /\ []<>(taskPc = "none" \/ taskPc = "sleep_dec")

\* the thread has come round to a third pass on a buffer of several windows
C14_Witness ==
    /\ taskPc = "inc"
    /\ passes >= 2
    /\ ToNat(bytes) > CHUNK_SIZE

(***************************************************************************)
(* Ownership of the buffer, under Spec.                                    *)
(***************************************************************************)
\* C15: once allocate_memory has launched the thread and returned from
\* keep_modifying_data, the thread holds the only handle to the buffer; only
\* steps of the thread take the mutex or change the buffer; one thread is
\* launched per successful call, at line 34 and nowhere else; the caller is
\* left with the byte count alone.
C15_SoleOwner ==
    /\ [](pc \in {"kept", "returned"} /\ taskPc # "none"
             => handles = {"task"})
    /\ [](pc = "returned" /\ IsOk(result)
             => taskPc # "none" /\ handles = {"task"} /\ result = Ok(bytes))
    /\ [](mutex \in {"none", "free", "task"})
    /\ [][taskPc # "none" /\ (data' # data \/ mutex' # mutex)
             => pc' = pc /\ taskPc \in {"lock_inc", "inc", "lock_dec", "dec"}]_vars
    /\ [][taskPc = "none" /\ taskPc' # "none"
             => pc = "wrapped" /\ pc' = "spawned"]_vars
    /\ [][taskPc # "none" /\ pc' # pc
             => taskPc' = taskPc /\ "task" \in handles']_vars

\* the call has returned Ok and the thread is inside a decrement pass
C15_Witness ==
    /\ pc = "returned"
    /\ IsOk(result)
    /\ handles = {"task"}
    /\ taskPc = "dec"
    /\ mutex = "task"

(***************************************************************************)
(* The units of the pattern, under ParseSpec.                              *)
(***************************************************************************)
\* C16: the error "Invalid memory unit" is never returned: the pattern
\* captures each of B, KB, MB, GB, TB, PB and no other unit, and each of them
\* has a multiplier branch.
C16_InvalidUnitUnreachable ==
    pc = "parsed" =>
        /\ ~(IsErr(result) /\ result[2] = "Invalid memory unit")
        /\ MEMORY_REGEX(memory) # None =>
              /\ MEMORY_REGEX(memory)[1][2] \in Units
              /\ multiplier(MEMORY_REGEX(memory)[1][2]) # None
        /\ \A u \in Units :
              /\ MEMORY_REGEX(<<"1">> \o u) = Some(<< <<"1">>, u >>)
              /\ multiplier(u) # None

\* a text with the unit PB was parsed
C16_Witness ==
    /\ pc = "parsed"
    /\ MEMORY_REGEX(memory) # None
    /\ MEMORY_REGEX(memory)[1][2] = <<"P", "B">>
    /\ IsOk(result)

(***************************************************************************)
(* The buffer for the life of the process, under Spec.                     *)
(***************************************************************************)
\* C17: from the end of the initialization on, and in every state after a
\* successful return, the buffer exists, some handle keeps it alive and its
\* length is the requested byte count: no pass and no step of the caller
\* resizes, truncates or frees it.
C17_LengthKept ==
    /\ pc \in {"filled", "wrapped", "spawned", "kept", "returned"} /\ bytes # None
          => /\ data # None
             /\ Len(Buf) = ToNat(bytes)
    /\ pc \in {"wrapped", "spawned", "kept", "returned"} /\ bytes # None
          => handles # {}
    /\ pc = "returned" /\ IsOk(result) => result = Ok(bytes) /\ data # None

\* the call has returned and two cycles later the buffer of several windows
\* is still whole
C17_Witness ==
    /\ pc = "returned"
    /\ IsOk(result)
    /\ taskPc = "sleep_dec"
    /\ passes >= 4
    /\ Len(Buf) > CHUNK_SIZE
    /\ Len(Buf) = ToNat(result[2])

\* C18: every window the thread works on lies inside the buffer, every byte
\* stays a u8 under the wrapping update, so the thread never panics inside a
\* pass, the mutex is never poisoned and every lock() finds it free and
\* succeeds, for every buffer length including 0.
C18_NoFault ==
    /\ ~poisoned
    /\ taskPc # "panicked"
    /\ taskPc \in {"inc", "dec"} /\ chunk_start < ToNat(bytes) =>
          /\ 0 <= chunk_start
          /\ chunk_start < Len(Buf)
          /\ chunk_end_of(chunk_start, ToNat(bytes)) <= Len(Buf)
    /\ taskPc \in {"lock_inc", "lock_dec"} => mutex = "free"
    /\ data # None => \A j \in 1..Len(Buf) : Buf[j] \in 0..255

\* a later decrement pass stands before its last window, which is clipped
C18_Witness ==
    /\ taskPc = "dec"
    /\ passes >= 3
    /\ ~poisoned
    /\ CHUNK_SIZE < ToNat(bytes)
    /\ chunk_start < ToNat(bytes)
    /\ ToNat(bytes) < chunk_start + CHUNK_SIZE

\* the offset the buffer has while the mutex is free: 1 from the end of an
\* increment pass until the decrement pass takes the lock, 0 otherwise
Offset == IF taskPc \in {"sleep_inc", "lock_dec"} THEN 1 ELSE 0

\* C19: the passes never drift: whenever the mutex is free every byte is
\* (i + k) mod 256 for one k, k = 1 after an increment pass and k = 0 after a
\* decrement pass and before the first pass; during a pass every byte is
\* i mod 256 or (i + 1) mod 256.
C19_NoDrift ==
    /\ mutex = "free" =>
          /\ HasPattern(Buf, Offset)
          /\ Len(Buf) > 0 => ~HasPattern(Buf, 1 - Offset)
    /\ mutex = "task" =>
          \A i \in 0..(Len(Buf) - 1) :
              At(Buf, i) \in {i % 256, (i + 1) % 256}

\* the sleep after the increment pass of the second cycle, on a buffer that
\* wraps around 255
C19_Witness ==
    /\ taskPc = "sleep_inc"
    /\ mutex = "free"
    /\ passes >= 3
    /\ Len(Buf) > 256
    /\ HasPattern(Buf, 1)
    /\ At(Buf, 255) = 0

\* C20: when the text does not parse, allocate_memory returns the parser's
\* error, one of the three kinds, and nothing else has happened: no buffer,
\* no mutex, no handle, no thread, nothing written.
C20_ParseErrorNoEffect ==
    pc # "call" /\ IsErr(parse_memory_string(memory)) =>
        /\ pc = "returned"
        /\ result = parse_memory_string(memory)
        /\ result[2] \in {"Invalid memory string format",
                          "Failed to parse number", "Memory size overflow"}
        /\ bytes = None /\ data = None /\ mutex = "none" /\ ~poisoned
        /\ handles = {} /\ taskPc = "none" /\ chunk_start = 0 /\ passes = 0
        /\ stderr = <<>> /\ cycle_start = None

\* the call has returned the overflow error
C20_Witness ==
    /\ pc = "returned"
    /\ IsErr(result)
    /\ result[2] = "Memory size overflow"
    /\ data = None
    /\ taskPc = "none"

====
